---------------------------- MODULE Spec2Model ----------------------------
(***************************************************************************)
(* Battery Guard multi-device monitor: the per-device connection state     *)
(* machine of src/src/main.cpp, driven by the Arduino loop() task and by   *)
(* the NimBLE host task's callbacks (scan result, notification,            *)
(* disconnect).                                                            *)
(*                                                                         *)
(* loop() is split at its blocking calls (connect, the GATT round trips,   *)
(* delay) and at the supervisor's two separate reads of shared data; the   *)
(* callbacks run on the host task and may be scheduled between any two of  *)
(* those steps.                                                            *)
(*                                                                         *)
(* Time.  The code uses millis() only to store instants and to subtract    *)
(* two of them (unsigned long, wrapping).  The model therefore stores an   *)
(* instant t as its age, millis() - t modulo ClockMod: an assignment of    *)
(* millis() stores age 0 (Millis), the passing of one time unit adds 1 to  *)
(* every stored age (Advance), and the difference a - b of two instants is *)
(* age(b) - age(a) modulo ClockMod (Sub), with the same wrap-around.       *)
(***************************************************************************)
EXTENDS Integers, Naturals, FiniteSets, Sequences, TLC

\* ------------------------------------------------------------- bounds
NumMonitors == 2              \* activeMonitorCount after setup() (at most 4)
ClockMod == 8                 \* millis() wraps at this value (2^32 in the build)
MaxTickDur == 1               \* longest duration of one loop() iteration
RetryCap == 4                 \* connect failures are explored up to this counter value
NumFrames == 1                \* distinct telemetry payloads
RETRY_COOLDOWN_MS == 2        \* config.h tunable, in model time units
NOTIFICATION_TIMEOUT_MS == 2  \* config.h tunable, in model time units
NumAddresses == 4             \* addresses a device table is written with

\* -------------------------------------------------- program constants
\* One model time unit is the supervisor's grace period of 2000 ms.
MAX_CONNECT_RETRIES == 3
GRACE_PERIOD == 1
HANDSHAKE_WRITES == 6
FRAME_LEN == 16
STORES == 8
LOADS == 4

Mon == 1..NumMonitors
Time == 0..(ClockMod - 1)
Frames == 1..NumFrames
ElapsedCap == ClockMod - 1

States == {"DISCONNECTED", "SCANNING", "CONNECTING", "HANDSHAKE", "MONITORING", "COOLDOWN"}

VARIABLES
    monitors,        \* BatteryMonitor monitors[]: the fields of each Monitor
    link,            \* link[m]: monitors[m].pClient->isConnected()
    subscribed,      \* subscribed[m]: notifyCallback is registered on m's link
    scanRunning,     \* pBLEScan->isScanning()
    scanningActive,  \* the loop's flag of the same name
    cbPending,       \* Monitor whose claim is inside onResult's delay(100); 0: none
    cbAddr,          \* onResult: device->getAddress() of that advertisement
    pc,              \* position of the loop() task
    idx,             \* loop(): i (1-based)
    now,             \* loop(): now, read once when the iteration starts (an age)
    needToConnect,   \* loop(): needToConnect
    currentTime,     \* loop(): currentTime of the supervisor (an age)
    hsIdx,           \* sendHandshake(): i, the writes issued so far
    hist,            \* history, per Monitor: elapsed times (see NoHistory)
    written,         \* sendHandshake(): the commands passed to writeValue() so far
    left,            \* history: Monitors that left SCANNING in this loop() iteration
    claimed,         \* history (recorded by TickSpec only): Monitors onResult moved from
                     \* DISCONNECTED to SCANNING in this loop() iteration
    attempted,       \* history (recorded by TickSpec only): the loop() iteration before
                     \* this one made a connect attempt and ended with the scan stopped
    ignored,         \* history: the last step was onResult for an advertisement without
                     \* the family name whose address a Monitor could have claimed
    devices,         \* const DeviceConfig DEVICES[] of config.h: serial and enabled
    configIndex,     \* configIndex[m]: monitors[m].configIndex, 1-based; 0: config is null
    activeMonitorCount,
    rx,              \* notifyCallback(): its arguments, and decrypted once it has run
    wr,              \* notifyCallback(): the fields of the Monitor written so far
    snap,            \* buildJsonPayload(): the values it has read so far
    display,         \* displayTask(): its locals, and g_displayData as it reads it
    publisher        \* MQTTClient: lastPublishTime[], millis() and the broker link

vars == <<monitors, link, subscribed, scanRunning, scanningActive, cbPending, cbAddr,
          pc, idx, now, needToConnect, currentTime, hsIdx, written, hist, left,
          claimed, attempted, ignored, devices, configIndex, activeMonitorCount, rx, wr,
          snap, display, publisher>>

\* the configuration, as setup() left it
confVars == <<devices, configIndex, activeMonitorCount>>

\* the frame decoder and the reader of the snapshot, taken one at a time
codecVars == <<rx, wr, snap>>

\* the display task and the telemetry publisher, taken one at a time
readerVars == <<display, publisher>>

loopVars == <<pc, idx, now, needToConnect, currentTime, hsIdx, written>>

\* millis(), as an age
Millis == 0

\* unsigned long subtraction a - b of two instants given by their ages
Sub(a, b) == (b - a + ClockMod) % ClockMod

\* the age of an instant one time unit later
Older(a) == (a + 1) % ClockMod

Min(a, b) == IF a < b THEN a ELSE b

\* ------------------------------------------------------- cipher and frames

Bytes == 0..255
Block == [0..(FRAME_LEN - 1) -> Bytes]

\* a ^ b and a | b on unsigned values, bit by bit
RECURSIVE BitXor(_, _)
BitXor(a, b) ==
    IF a = 0 THEN b
    ELSE IF b = 0 THEN a
    ELSE ((a + b) % 2) + 2 * BitXor(a \div 2, b \div 2)

RECURSIVE BitOr(_, _)
BitOr(a, b) ==
    IF a = 0 THEN b
    ELSE IF b = 0 THEN a
    ELSE (IF a % 2 = 1 \/ b % 2 = 1 THEN 1 ELSE 0) + 2 * BitOr(a \div 2, b \div 2)

\* const uint8_t AES_IV[16]: all zero
AES_IV == [i \in 0..(FRAME_LEN - 1) |-> 0]

\* const uint8_t AES_KEY[16] of config.h, the key every configured device shares; the
\* file is not published with the sources (the key is extracted from the vendor app), so
\* the model fixes one value
AES_KEY == [i \in 0..(FRAME_LEN - 1) |-> (29 * i + 113) % 256]

\* 128-bit keys the cipher is exercised with
Keys == {AES_KEY, AES_IV, [i \in 0..(FRAME_LEN - 1) |-> 255 - i]}

\* The AES-128 block transformation of mbedtls under key k and its inverse.  The library
\* is not part of the repository: the model represents it by a keyed permutation of the
\* 16-byte blocks that is neither the identity nor its own inverse (byte i of the output
\* is byte i + 1 of the input plus byte i of the key, modulo 256).
BlockEncrypt(k, x) ==
    [i \in 0..(FRAME_LEN - 1) |-> (x[(i + 1) % FRAME_LEN] + k[i]) % 256]

BlockDecrypt(k, y) ==
    [i \in 0..(FRAME_LEN - 1) |->
        (y[(i + FRAME_LEN - 1) % FRAME_LEN] - k[(i + FRAME_LEN - 1) % FRAME_LEN] + 256) % 256]

\* mbedtls_aes_crypt_cbc(&aes, MBEDTLS_AES_ENCRYPT, 16, iv, input, output) on one block:
\* the block is xored with iv and transformed; iv is overwritten with the ciphertext
CbcEncrypt(k, iv, input) ==
    LET out == BlockEncrypt(k, [i \in 0..(FRAME_LEN - 1) |-> BitXor(input[i], iv[i])])
    IN  [output |-> out, iv |-> out]

\* mbedtls_aes_crypt_cbc(&aes, MBEDTLS_AES_DECRYPT, 16, iv, input, output) on one block
CbcDecrypt(k, iv, input) ==
    LET blk == BlockDecrypt(k, input)
    IN  [output |-> [i \in 0..(FRAME_LEN - 1) |-> BitXor(blk[i], iv[i])], iv |-> input]

\* aes_encrypt(input, output) with AES_KEY = k: iv_copy is a fresh copy of AES_IV
AesEncrypt(k, input) == CbcEncrypt(k, AES_IV, input).output

\* a decryption that runs the cipher in MBEDTLS_AES_ENCRYPT mode
AesDecrypt_EncryptMode(k, input) == CbcEncrypt(k, AES_IV, input).output

\* aes_decrypt(input, output) with AES_KEY = k: iv_copy is a fresh copy of AES_IV
AesDecrypt(k, input) == CbcDecrypt(k, AES_IV, input).output

\* a length test that lets longer notifications through
LengthOk_AtLeast(length) == ~(length < FRAME_LEN)

\* notifyCallback(): the negation of length != 16
LengthOk(length) == ~(length # FRAME_LEN)

\* a header test that looks at the first byte only
HeaderOk_FirstByte(decrypted) == ~(decrypted[0] # 209)

\* notifyCallback(): the negation of decrypted[0] != 0xD1 || decrypted[1] != 0x55
HeaderOk(decrypted) == ~(decrypted[0] # 209 \/ decrypted[1] # 85)

\* conversion of an int to int8_t: the value modulo 2^8 in -128..127
ToInt8(x) == ((x + 128) % 256) - 128

\* notifyCallback(): monitor->temperature, an int8_t, from the sign byte and the
\* magnitude byte, each cast to int8_t before the sign is applied
Temperature(decrypted) ==
    IF decrypted[3] = 1 THEN ToInt8(0 - ToInt8(decrypted[4])) ELSE ToInt8(decrypted[4])

\* a decoder that keeps the status codes of BatteryStatus only
Status_Known(decrypted) == IF decrypted[5] \in {1, 2} THEN decrypted[5] ELSE 0

\* notifyCallback(): monitor->status and monitor->soc, both uint8_t
Status(decrypted) == decrypted[5]
Soc(decrypted) == decrypted[6]

\* a 16-bit value read low byte first
Word_LittleEndian(hi, lo) == BitOr(lo * 256, hi)

\* (hi << 8) | lo
Word(hi, lo) == BitOr(hi * 256, lo)

\* notifyCallback(): monitor->voltage = ((decrypted[7] << 8) | decrypted[8]) / 100.0f.
\* The model stores the float n / 100.0f as n, the voltage in hundredths of a volt: for
\* n below 2^16 the nearest float to n / 100 determines n.
Voltage(decrypted) == Word(decrypted[7], decrypted[8])

\* BatteryMonitor(): voltage(0), soc(0), temperature(0), status(0), counters 0
NoReading ==
    [voltage |-> 0, soc |-> 0, temperature |-> 0, status |-> 0,
     rapidVoltageRise |-> 0, rapidVoltageDrop |-> 0]

Readings ==
    [voltage : 0..65535, soc : Bytes, temperature : -128..127, status : Bytes,
     rapidVoltageRise : 0..65535, rapidVoltageDrop : 0..65535]

\* notifyCallback(): the data fields as written from one accepted frame
Decoded(decrypted) ==
    [temperature |-> Temperature(decrypted),
     status |-> Status(decrypted),
     soc |-> Soc(decrypted),
     voltage |-> Voltage(decrypted),
     rapidVoltageRise |-> Word(decrypted[9], decrypted[10]),
     rapidVoltageDrop |-> Word(decrypted[11], decrypted[12])]

\* the plaintext of telemetry frame f: header D1 55 07, then sign, temperature, status,
\* state of charge, voltage, the two counters and three bytes of padding; frame 1 reads
\* +23 degrees, charging, 59 %, 12.00 V, 0 rises, 2 drops
Payload(f) ==
    [i \in 0..(FRAME_LEN - 1) |->
        CASE i = 0 -> 209
          [] i = 1 -> 85
          [] i = 2 -> 7
          [] i = 3 -> (f - 1) % 2
          [] i = 4 -> 23
          [] i = 5 -> 2 - ((f - 1) % 2)
          [] i = 6 -> 59
          [] i = 7 -> 4
          [] i = 8 -> 176
          [] i = 10 -> f - 1
          [] i = 12 -> 2
          [] OTHER -> 0]

\* a notification of length bytes whose first 16 are pData, with the block that
\* aes_decrypt() yields for them
Notification(length, pData) ==
    [length |-> length, pData |-> pData, decrypted |-> AesDecrypt(AES_KEY, pData)]

\* what the notify characteristic delivers while the program runs: telemetry frames and
\* a block that does not decrypt to the header
Notifications ==
    {Notification(FRAME_LEN, AesEncrypt(AES_KEY, Payload(f))) : f \in Frames}
    \cup {Notification(FRAME_LEN, Payload(1))}

\* BatteryMonitor::BatteryMonitor() followed by init()
NewMonitor ==
    [state |-> "DISCONNECTED", connectRetries |-> 0,
     lastRetryTime |-> 0, lastNotificationTime |-> 0, stateEnterTime |-> 0,
     pClient |-> FALSE, pWriteChar |-> FALSE, pNotifyChar |-> FALSE,
     deviceAddress |-> 0, reading |-> NoReading, lastUpdateTime |-> 0]

\* Elapsed times that do not wrap: they stop at ElapsedCap.
\* sinceFail: time since the connect attempt that led to COOLDOWN returned
\* silence:   time since lastNotificationTime was written
\* inMon:     time since the Monitor entered MONITORING
\* late:      silence has reached NOTIFICATION_TIMEOUT_MS since the Monitor entered MONITORING
NoHistory == [sinceFail |-> 0, silence |-> 0, inMon |-> 0, late |-> FALSE]

\* config->serial of Monitor m: an address in 1..NumAddresses, 0 is foreign
Serial(m) == devices[configIndex[m]].serial

\* DEVICES[i].enabled: setup() activates enabled devices only
Enabled(i) == devices[i].enabled

\* the device table of the running program: every device enabled, device i at address i
DeviceTable == [i \in Mon |-> [serial |-> i, enabled |-> TRUE]]

\* no notification in flight
NoRx == [phase |-> "idle"]

\* config->type of Monitor m, a BatteryType: LEAD_ACID, OTHER_MANUAL, LITHIUM_MANUAL, ...
Type(m) == ((3 * (m - 1)) % 7) + 1

\* device->getName() of an advertisement; "" when haveName() is false
Names == {"", "Battery Guard", "Other"}

\* an onResult without the name test
IsBatteryGuard_Any(name) == TRUE

\* ScanCallbacks::onResult: the advertisement passes the name test
IsBatteryGuard(name) == ~(name = "" \/ name # "Battery Guard")

\* a handshake that always selects LEAD_ACID
Command_FixedType(i, t) ==
    CASE i = 1 -> <<1, 0>>
      [] i = 2 -> <<8, 1>>
      [] i = 3 -> <<5, 30>>
      [] i = 4 -> <<5, 51860>>
      [] i = 5 -> <<3, 0>>
      [] i = 6 -> <<7, 0>>

\* sendHandshake(): commands[i - 1] for battery type t, as <<commands[i - 1][2], the
\* value of its argument bytes>>
Opcodes == {1, 3, 5, 7, 8}
Params == 0..51860
Command(i, t) ==
    CASE i = 1 -> <<1, 0>>
      [] i = 2 -> <<8, t>>
      [] i = 3 -> <<5, 30>>
      [] i = 4 -> <<5, 51860>>
      [] i = 5 -> <<3, 0>>
      [] i = 6 -> <<7, 0>>

\* the display: MAX_MONITORS slots of g_displayData
MAX_MONITORS == 4

Slot == 0..(MAX_MONITORS - 1)

\* the rotation period of 15000 ms, in display refreshes
SwitchTicks == 2

\* selected: nothing has been handed to drawDevice()
NoDraw == -1

\* displayTask() before its first refresh; shown[i]: g_displayData[i].active and
\* g_displayData[i].connected; sinceSwitch: now - lastDeviceSwitch, in refreshes;
\* connectedCount and selected: as the last refresh computed them, selected being the
\* argument of drawDevice() (MAX_MONITORS: a value that is no slot)
NoDisplay ==
    [shown |-> [i \in Slot |-> FALSE], currentDeviceIndex |-> 0, sinceSwitch |-> 0,
     connectedCount |-> 0, selected |-> NoDraw]

\* the publisher: millis() is an unsigned counter that wraps
WrapMod == 8

\* MQTT_UPDATE_INTERVAL * 1000 ms, in ticks of millis()
MQTT_UPDATE_INTERVAL == 3

\* since[d]: no state of device d has been published
Never == -1

\* MQTTClient() before its first publishState(), called some time after the start;
\* since[d]: the time since the last publish of d, up to the interval; published[d]:
\* the result of that publish; early[d]: it came less than the interval after the one
\* before it
NoPublisher ==
    [millis |-> 1, connected |-> FALSE, lastPublishTime |-> [d \in Mon |-> 0],
     since |-> [d \in Mon |-> Never], published |-> [d \in Mon |-> FALSE],
     early |-> [d \in Mon |-> FALSE]]

TypeOK ==
    /\ monitors \in [Mon -> [state : States, connectRetries : 0..RetryCap,
                             lastRetryTime : Time, lastNotificationTime : Time,
                             stateEnterTime : Time,
                             pClient : BOOLEAN, pWriteChar : BOOLEAN, pNotifyChar : BOOLEAN,
                             deviceAddress : 0..NumMonitors, reading : Readings,
                             lastUpdateTime : Time]]
    /\ link \in [Mon -> BOOLEAN]
    /\ subscribed \in [Mon -> BOOLEAN]
    /\ scanRunning \in BOOLEAN
    /\ scanningActive \in BOOLEAN
    /\ cbPending \in 0..NumMonitors
    /\ cbAddr \in 0..NumMonitors
    /\ pc \in {"setup", "start", "visit", "connect", "service", "chars", "subscribe", "connected",
               "hsEnter", "hsWrite", "hsDone", "checks", "sup2", "end"}
    /\ idx \in Mon
    /\ now \in Time
    /\ needToConnect \in BOOLEAN
    /\ currentTime \in Time
    /\ hsIdx \in 0..HANDSHAKE_WRITES
    /\ hist \in [Mon -> [sinceFail : 0..ElapsedCap, silence : 0..ElapsedCap,
                            inMon : 0..ElapsedCap, late : BOOLEAN]]
    /\ written \in Seq(Opcodes \X Params)
    /\ left \subseteq Mon
    /\ claimed \subseteq Mon
    /\ attempted \in BOOLEAN
    /\ ignored \in BOOLEAN
    /\ devices \in [Mon -> [serial : 1..NumAddresses, enabled : BOOLEAN]]
    /\ configIndex \in [Mon -> 0..NumMonitors]
    /\ activeMonitorCount \in 0..NumMonitors
    /\ \/ rx = NoRx
       \/ rx \in [phase : {"pending", "handled"}, length : 0..(2 * FRAME_LEN),
                  plain : Block, pData : Block, decrypted : Block]
    /\ wr \in 0..STORES
    /\ snap \in Seq(-128..65535) /\ Len(snap) <= LOADS
    /\ display \in [shown : [Slot -> BOOLEAN], currentDeviceIndex : Slot,
                    sinceSwitch : 0..SwitchTicks, connectedCount : 0..MAX_MONITORS,
                    selected : {NoDraw} \cup Slot \cup {MAX_MONITORS}]
    /\ publisher \in [millis : 0..(WrapMod - 1), connected : BOOLEAN,
                      lastPublishTime : [Mon -> 0..(WrapMod - 1)],
                      since : [Mon -> {Never} \cup 0..MQTT_UPDATE_INTERVAL],
                      published : [Mon -> BOOLEAN], early : [Mon -> BOOLEAN]]

\* setup()
Init ==
    /\ monitors = [m \in Mon |-> NewMonitor]
    /\ link = [m \in Mon |-> FALSE]
    /\ subscribed = [m \in Mon |-> FALSE]
    /\ scanRunning = TRUE
    /\ scanningActive = TRUE
    /\ cbPending = 0
    /\ cbAddr = 0
    /\ pc = "start"
    /\ idx = 1
    /\ now = 0
    /\ needToConnect = FALSE
    /\ currentTime = 0
    /\ hsIdx = 0
    /\ written = <<>>
    /\ hist = [m \in Mon |-> NoHistory]
    /\ left = {}
    /\ claimed = {}
    /\ attempted = FALSE
    /\ display = NoDisplay
    /\ publisher = NoPublisher
    /\ ignored = FALSE
    /\ devices = DeviceTable
    /\ configIndex = [m \in Mon |-> m]
    /\ activeMonitorCount = NumMonitors
    /\ rx = NoRx
    /\ wr = 0
    /\ snap = <<>>

\* ------------------------------------------------------ code fragments

\* loop(): the Monitor after connect() returned false
ConnectFailed(mon, t) ==
    LET r == mon.connectRetries + 1 IN
    IF r >= MAX_CONNECT_RETRIES
    THEN [mon EXCEPT !.pClient = FALSE, !.connectRetries = r,
                     !.state = "COOLDOWN", !.lastRetryTime = t]
    ELSE [mon EXCEPT !.pClient = FALSE, !.connectRetries = r,
                     !.state = "DISCONNECTED"]

\* loop(): a failed service / characteristic / subscribe step
StepFailed(mon) == [mon EXCEPT !.state = "DISCONNECTED"]

\* a connection sequence that skips the handshake state
ConnectSucceeded_Skip(mon) == [mon EXCEPT !.connectRetries = 0, !.state = "MONITORING"]

\* a connection sequence that enters the handshake without clearing connectRetries
ConnectSucceeded_KeepRetries(mon) == [mon EXCEPT !.state = "HANDSHAKE"]

\* loop(): the connection sequence succeeded
ConnectSucceeded(mon) == [mon EXCEPT !.connectRetries = 0, !.state = "HANDSHAKE"]

\* sendHandshake(): after the last write
HandshakeFinished(mon, t) ==
    [mon EXCEPT !.state = "MONITORING", !.stateEnterTime = t,
                !.lastNotificationTime = t, !.lastUpdateTime = t]

\* a cleanup() that also forgets the reading
Cleanup_Wipe(mon) ==
    [mon EXCEPT !.pClient = FALSE, !.pWriteChar = FALSE, !.pNotifyChar = FALSE,
                !.state = "DISCONNECTED", !.reading = NoReading]

\* BatteryMonitor::cleanup()
Cleanup(mon) ==
    [mon EXCEPT !.pClient = FALSE, !.pWriteChar = FALSE, !.pNotifyChar = FALSE,
                !.state = "DISCONNECTED"]

\* ClientCallbacks::onDisconnect
DisconnectCallback(mon) ==
    [mon EXCEPT !.state = "DISCONNECTED", !.pWriteChar = FALSE, !.pNotifyChar = FALSE]

\* loop(): the cooldown check
CooldownExpired(mon, t) ==
    mon.state = "COOLDOWN" /\ Sub(t, mon.lastRetryTime) >= RETRY_COOLDOWN_MS

CooldownCheck(mon, t) ==
    IF CooldownExpired(mon, t)
    THEN [mon EXCEPT !.state = "DISCONNECTED", !.connectRetries = 0]
    ELSE mon

\* a supervisor without grace period
GraceOver_NoGrace(mon, t) == Sub(t, mon.stateEnterTime) >= 0

\* a supervisor whose timeout threshold is too large
NotifTimedOut_Late(mon, t) ==
    Sub(t, mon.lastNotificationTime) > NOTIFICATION_TIMEOUT_MS + GRACE_PERIOD + 1

\* loop(): the supervisor's grace period test
GraceOver(mon, t) == Sub(t, mon.stateEnterTime) > GRACE_PERIOD

\* loop(): the supervisor's timeout test
NotifTimedOut(mon, t) == Sub(t, mon.lastNotificationTime) > NOTIFICATION_TIMEOUT_MS

\* ScanCallbacks::onResult: the tests a Monitor with a matching address must pass
CanClaim(m) ==
    /\ Enabled(m)
    /\ monitors[m].state # "COOLDOWN"
    /\ monitors[m].state \notin {"CONNECTING", "MONITORING", "HANDSHAKE"}
    /\ ~(monitors[m].pClient /\ link[m])

\* ScanCallbacks::onResult: the Monitors the advertisement may claim
Matches(addr) == {m \in Mon : Serial(m) = addr /\ CanClaim(m)}

\* an onResult that takes the first claimable Monitor whatever its configured address
FirstMatch_AnyAddress(addr) ==
    CHOOSE m \in Mon : CanClaim(m) /\ \A k \in Mon : CanClaim(k) => m <= k

\* ScanCallbacks::onResult: the first of them in table order
FirstMatch(addr) == CHOOSE m \in Matches(addr) : \A k \in Matches(addr) : m <= k

\* notifyCallback(): the fields written for an accepted frame
StoreFrame(mon, decrypted, t) ==
    [mon EXCEPT !.reading = Decoded(decrypted), !.lastUpdateTime = t,
                !.lastNotificationTime = t]

\* notifyCallback(): the notification passes the length test and the header test;
\* decrypted is the block aes_decrypt() yields for pData
Accepts(length, decrypted) == LengthOk(length) /\ HeaderOk(decrypted)

\* a notifyCallback() that takes an accepted frame as the end of the handshake
Received_Promote(mon, length, decrypted, t) ==
    IF ~LengthOk(length) THEN mon
    ELSE IF ~HeaderOk(decrypted) THEN mon
         ELSE [StoreFrame(mon, decrypted, t) EXCEPT !.state = "MONITORING"]

\* notifyCallback() for a notification of the characteristic mon subscribed to, given
\* the block aes_decrypt() yields for pData (not looked at unless the length is 16)
Received(mon, length, decrypted, t) ==
    IF ~LengthOk(length) THEN mon
    ELSE IF ~HeaderOk(decrypted) THEN mon ELSE StoreFrame(mon, decrypted, t)

\* notifyCallback() for a notification of the characteristic mon subscribed to
NotifyCallback(mon, length, pData, t) ==
    Received(mon, length, AesDecrypt(AES_KEY, pData), t)

\* loop(): for (...; i++) and continue
NextPc == IF idx < NumMonitors THEN "visit" ELSE "end"
NextIdx == IF idx < NumMonitors THEN idx + 1 ELSE idx

\* ---------------------------------------------------- stored state
\* A timestamp is stored only while the code can still read it: lastRetryTime is read
\* in COOLDOWN only, stateEnterTime and lastNotificationTime in MONITORING only (and
\* lastNotificationTime by the supervisor that already passed the grace test, sup);
\* each is rewritten when that state is entered.  Elsewhere the model stores 0.
\* lastUpdateTime is never read by the program.
Live(mon, sup) ==
    [mon EXCEPT !.lastRetryTime = IF mon.state = "COOLDOWN" THEN @ ELSE 0,
                !.stateEnterTime = IF mon.state = "MONITORING" THEN @ ELSE 0,
                !.lastNotificationTime = IF mon.state = "MONITORING" \/ sup THEN @ ELSE 0,
                !.lastUpdateTime = 0]

Keep(ms, p, i) == [m \in Mon |-> Live(ms[m], p = "sup2" /\ i = m)]

Track(h, ms) ==
    [m \in Mon |->
        [sinceFail |-> IF ms[m].state = "COOLDOWN" THEN h[m].sinceFail ELSE 0,
         silence |-> IF ms[m].state = "MONITORING" THEN h[m].silence ELSE 0,
         inMon |-> IF ms[m].state = "MONITORING" THEN h[m].inMon ELSE 0,
         late |-> ms[m].state = "MONITORING" /\ h[m].late]]

\* the Monitors become ms and the history h, with the loop() task at p, i
Put(ms, h, p, i) ==
    /\ monitors' = Keep(ms, p, i)
    /\ hist' = Track(h, ms)

\* ------------------------------------------------------------ loop()

\* setup() returned, or the delay(100) that ends loop() is over, and loop() starts:
\* unsigned long now = millis(); bool needToConnect = false;
LoopStart ==
    /\ pc = "start"
    /\ now' = Millis
    /\ needToConnect' = FALSE
    /\ idx' = 1
    /\ pc' = "visit"
    /\ left' = {}
    /\ claimed' = {}
    /\ UNCHANGED <<monitors, link, subscribed, scanRunning, scanningActive, cbPending, cbAddr,
                   currentTime, hsIdx, written, hist>>
    /\ ignored' = FALSE
    /\ UNCHANGED <<confVars, readerVars, codecVars, attempted>>

\* loop(): the cooldown check, then the supervisor's currentTime = millis() and grace test
CheckSlot ==
    /\ LET mon == CooldownCheck(monitors[idx], now)
           sup == mon.state = "MONITORING" /\ GraceOver(mon, Millis)
       IN  /\ pc' = IF sup THEN "sup2" ELSE NextPc
           /\ idx' = IF sup THEN idx ELSE NextIdx
           /\ currentTime' = IF sup THEN Millis ELSE 0
           /\ Put([monitors EXCEPT ![idx] = mon], hist,
                  IF sup THEN "sup2" ELSE NextPc, IF sup THEN idx ELSE NextIdx)
    /\ UNCHANGED <<link, subscribed, scanRunning, scanningActive, cbPending, cbAddr,
                   now, needToConnect, hsIdx, written, left, claimed>>

\* loop(): if (state == STATE_SCANNING && !needToConnect): stop the scan, create the
\* client and call connect(); otherwise go on to the checks of this Monitor
Visit ==
    /\ pc = "visit"
    /\ IF monitors[idx].state = "SCANNING" /\ ~needToConnect
       THEN /\ scanRunning' = FALSE
            /\ scanningActive' = IF scanRunning THEN FALSE ELSE scanningActive
            /\ Put([monitors EXCEPT ![idx].state = "CONNECTING", ![idx].pClient = TRUE],
                   hist, "connect", idx)
            /\ left' = left \cup {idx}
            /\ pc' = "connect"
            /\ UNCHANGED <<link, subscribed, cbPending, cbAddr, idx, now, needToConnect,
                           currentTime, hsIdx, written, claimed>>
       ELSE CheckSlot
    /\ ignored' = FALSE
    /\ UNCHANGED <<confVars, readerVars, codecVars, attempted>>

\* loop(): the checks of the Monitor whose connect attempt ended without continue
Checks ==
    /\ pc = "checks"
    /\ CheckSlot
    /\ ignored' = FALSE
    /\ UNCHANGED <<confVars, readerVars, codecVars, attempted>>

\* loop(): pClient->connect() returned true (the host task delivered the event)
ConnectOk ==
    /\ pc = "connect"
    /\ cbPending = 0
    /\ link' = [link EXCEPT ![idx] = TRUE]
    /\ pc' = "service"
    /\ UNCHANGED <<monitors, subscribed, scanRunning, scanningActive, cbPending, cbAddr, 
                   idx, now, needToConnect, currentTime, hsIdx, written, hist, left, claimed>>
    /\ ignored' = FALSE
    /\ UNCHANGED <<confVars, readerVars, codecVars, attempted>>

\* loop(): pClient->connect() returned false
ConnectFail ==
    /\ pc = "connect"
    /\ monitors[idx].connectRetries < RetryCap
    /\ Put([monitors EXCEPT ![idx] = ConnectFailed(monitors[idx], now)],
           [hist EXCEPT ![idx].sinceFail = 0], "checks", idx)
    /\ needToConnect' = TRUE
    /\ pc' = "checks"
    /\ UNCHANGED <<link, subscribed, scanRunning, scanningActive, cbPending, cbAddr, 
                   idx, now, currentTime, hsIdx, written, left, claimed>>
    /\ ignored' = FALSE
    /\ UNCHANGED <<confVars, readerVars, codecVars, attempted>>

\* loop(): getService(SERVICE_UUID)
Service ==
    /\ pc = "service"
    /\ \E found \in BOOLEAN :
        /\ found => link[idx]
        /\ IF found
           THEN pc' = "chars" /\ UNCHANGED <<monitors, hist, idx>>
           ELSE /\ Put([monitors EXCEPT ![idx] = StepFailed(monitors[idx])],
                       hist, NextPc, NextIdx)
                /\ pc' = NextPc
                /\ idx' = NextIdx
    /\ UNCHANGED <<link, subscribed, scanRunning, scanningActive, cbPending, cbAddr, 
                   now, needToConnect, currentTime, hsIdx, written, left, claimed>>
    /\ ignored' = FALSE
    /\ UNCHANGED <<confVars, readerVars, codecVars, attempted>>

\* loop(): getCharacteristic(CHAR_WRITE_UUID), getCharacteristic(CHAR_NOTIFY_UUID)
Chars ==
    /\ pc = "chars"
    /\ \E w \in BOOLEAN, n \in BOOLEAN :
        /\ (w \/ n) => link[idx]
        /\ LET got == [monitors[idx] EXCEPT !.pWriteChar = w, !.pNotifyChar = n] IN
           IF w /\ n
           THEN /\ Put([monitors EXCEPT ![idx] = got], hist, "subscribe", idx)
                /\ pc' = "subscribe"
                /\ idx' = idx
           ELSE /\ Put([monitors EXCEPT ![idx] = StepFailed(got)], hist, NextPc, NextIdx)
                /\ pc' = NextPc
                /\ idx' = NextIdx
    /\ UNCHANGED <<link, subscribed, scanRunning, scanningActive, cbPending, cbAddr, 
                   now, needToConnect, currentTime, hsIdx, written, left, claimed>>
    /\ ignored' = FALSE
    /\ UNCHANGED <<confVars, readerVars, codecVars, attempted>>

\* loop(): canNotify() / subscribe(true, notifyCallback) on a present pNotifyChar
Subscribe ==
    /\ pc = "subscribe"
    /\ monitors[idx].pNotifyChar
    /\ \E canNotify \in BOOLEAN, ok \in BOOLEAN :
        /\ ok => link[idx]
        /\ IF canNotify /\ ~ok
           THEN /\ Put([monitors EXCEPT ![idx] = StepFailed(monitors[idx])],
                       hist, NextPc, NextIdx)
                /\ pc' = NextPc
                /\ idx' = NextIdx
                /\ UNCHANGED subscribed
           ELSE /\ subscribed' = [subscribed EXCEPT ![idx] = canNotify /\ ok]
                /\ pc' = "connected"
                /\ UNCHANGED <<monitors, hist, idx>>
    /\ UNCHANGED <<link, scanRunning, scanningActive, cbPending, cbAddr, 
                   now, needToConnect, currentTime, hsIdx, written, left, claimed>>
    /\ ignored' = FALSE
    /\ UNCHANGED <<confVars, readerVars, codecVars, attempted>>

\* loop(): pNotifyChar was cleared by onDisconnect after the test at "chars"; the build
\* that kept the pointer in a register calls through the stale characteristic
SubscribeStale ==
    /\ pc = "subscribe"
    /\ ~monitors[idx].pNotifyChar
    /\ \E canNotify \in BOOLEAN :
        IF canNotify
        THEN /\ Put([monitors EXCEPT ![idx] = StepFailed(monitors[idx])],
                    hist, NextPc, NextIdx)
             /\ pc' = NextPc
             /\ idx' = NextIdx
        ELSE /\ pc' = "connected"
             /\ UNCHANGED <<monitors, hist, idx>>
    /\ UNCHANGED <<link, subscribed, scanRunning, scanningActive, cbPending, cbAddr, 
                   now, needToConnect, currentTime, hsIdx, written, left, claimed>>
    /\ ignored' = FALSE
    /\ UNCHANGED <<confVars, readerVars, codecVars, attempted>>

\* loop(): "Connected successfully": connectRetries = 0; state = STATE_HANDSHAKE
Connected ==
    /\ pc = "connected"
    /\ Put([monitors EXCEPT ![idx] = ConnectSucceeded(monitors[idx])], hist, "hsEnter", idx)
    /\ pc' = "hsEnter"
    /\ UNCHANGED <<link, subscribed, scanRunning, scanningActive, cbPending, cbAddr,
                   idx, now, needToConnect, currentTime, hsIdx, written, left, claimed>>
    /\ ignored' = FALSE
    /\ UNCHANGED <<confVars, readerVars, codecVars, attempted>>

\* loop(): delay(100); sendHandshake(): if (!monitor->pWriteChar) return;
HsEnter ==
    /\ pc = "hsEnter"
    /\ IF monitors[idx].pWriteChar
       THEN pc' = "hsWrite" /\ UNCHANGED needToConnect
       ELSE pc' = "checks" /\ needToConnect' = TRUE
    /\ hsIdx' = 0
    /\ written' = <<>>
    /\ UNCHANGED <<monitors, link, subscribed, scanRunning, scanningActive, cbPending, cbAddr,
                   idx, now, currentTime, hist, left, claimed>>
    /\ ignored' = FALSE
    /\ UNCHANGED <<confVars, readerVars, codecVars, attempted>>

\* sendHandshake(): one writeValue() (its result is ignored) and delay(50); with
\* pWriteChar cleared meanwhile, the build that kept the pointer in a register
HsWrite ==
    /\ pc = "hsWrite"
    /\ hsIdx' = hsIdx + 1
    /\ written' = Append(written, Command(hsIdx + 1, Type(idx)))
    /\ pc' = IF hsIdx + 1 = HANDSHAKE_WRITES THEN "hsDone" ELSE "hsWrite"
    /\ UNCHANGED <<monitors, link, subscribed, scanRunning, scanningActive, cbPending, cbAddr,
                   idx, now, needToConnect, currentTime, hist, left, claimed>>
    /\ ignored' = FALSE
    /\ UNCHANGED <<confVars, readerVars, codecVars, attempted>>

\* sendHandshake(): state = STATE_MONITORING and the timestamps; loop(): needToConnect = true
HsDone ==
    /\ pc = "hsDone"
    /\ Put([monitors EXCEPT ![idx] = HandshakeFinished(monitors[idx], Millis)],
           [hist EXCEPT ![idx].silence = 0, ![idx].inMon = 0, ![idx].late = FALSE],
           "checks", idx)
    /\ needToConnect' = TRUE
    /\ hsIdx' = 0
    /\ written' = <<>>
    /\ pc' = "checks"
    /\ UNCHANGED <<link, subscribed, scanRunning, scanningActive, cbPending, cbAddr, 
                   idx, now, currentTime, left, claimed>>
    /\ ignored' = FALSE
    /\ UNCHANGED <<confVars, readerVars, codecVars, attempted>>

\* a null pNotifyChar / pWriteChar is dereferenced: the ESP32 panics and restarts, setup()
Crash ==
    /\ \/ pc = "subscribe" /\ ~monitors[idx].pNotifyChar
       \/ pc = "hsWrite" /\ ~monitors[idx].pWriteChar
    /\ monitors' = [m \in Mon |-> NewMonitor]
    /\ link' = [m \in Mon |-> FALSE]
    /\ subscribed' = [m \in Mon |-> FALSE]
    /\ scanRunning' = TRUE
    /\ scanningActive' = TRUE
    /\ cbPending' = 0
    /\ cbAddr' = 0
    /\ pc' = "start"
    /\ idx' = 1
    /\ now' = 0
    /\ needToConnect' = FALSE
    /\ currentTime' = 0
    /\ hsIdx' = 0
    /\ written' = <<>>
    /\ hist' = [m \in Mon |-> NoHistory]
    /\ left' = {}
    /\ claimed' = {}
    /\ attempted' = FALSE
    /\ ignored' = FALSE
    /\ UNCHANGED <<confVars, readerVars, codecVars>>

\* loop(): the supervisor reads lastNotificationTime and decides
Supervise ==
    /\ pc = "sup2"
    /\ IF NotifTimedOut(monitors[idx], currentTime)
       THEN /\ Put([monitors EXCEPT ![idx] = Cleanup(monitors[idx])], hist, NextPc, NextIdx)
            /\ link' = [link EXCEPT ![idx] = FALSE]
            /\ subscribed' = [subscribed EXCEPT ![idx] = FALSE]
       ELSE /\ Put(monitors, hist, NextPc, NextIdx)
            /\ UNCHANGED <<link, subscribed>>
    /\ currentTime' = 0
    /\ pc' = NextPc
    /\ idx' = NextIdx
    /\ UNCHANGED <<scanRunning, scanningActive, cbPending, cbAddr, 
                   now, needToConnect, hsIdx, written, left, claimed>>
    /\ ignored' = FALSE
    /\ UNCHANGED <<confVars, readerVars, codecVars, attempted>>

\* loop(): keep scanningActive in sync, restart the scan, then enter delay(100); i and
\* needToConnect are not read again in this iteration; track: the history attempted is
\* recorded
LoopEndStep(track) ==
    /\ pc = "end"
    /\ IF ~needToConnect /\ ~scanRunning
       THEN scanRunning' = TRUE /\ scanningActive' = TRUE
       ELSE scanRunning' = scanRunning /\ scanningActive' = scanRunning
    /\ needToConnect' = FALSE
    /\ idx' = 1
    /\ pc' = "start"
    /\ UNCHANGED <<monitors, link, subscribed, cbPending, cbAddr, now, currentTime,
                   hsIdx, written, hist, left, claimed>>
    /\ attempted' = (track /\ left # {} /\ ~scanRunning')
    /\ ignored' = FALSE
    /\ UNCHANGED <<confVars, readerVars, codecVars>>

LoopEnd == LoopEndStep(FALSE)

LoopEndTick == LoopEndStep(TRUE)

\* --------------------------------------------------- host task callbacks

\* ScanCallbacks::onResult up to getScan()->stop(); delay(100)
OnResult ==
    /\ scanRunning
    /\ cbPending = 0
    /\ \E name \in Names, addr \in 0..NumMonitors :
        /\ IF IsBatteryGuard(name) /\ Matches(addr) # {}
           THEN /\ scanRunning' = FALSE
                /\ cbPending' = FirstMatch(addr)
                /\ cbAddr' = addr
           ELSE UNCHANGED <<scanRunning, cbPending, cbAddr>>
        /\ ignored' = (name # "Battery Guard" /\ Matches(addr) # {})
    /\ UNCHANGED <<monitors, link, subscribed, scanningActive, loopVars, hist, left, claimed>>
    /\ UNCHANGED <<confVars, readerVars, codecVars, attempted>>

\* ScanCallbacks::onResult after the delay: state = STATE_SCANNING, address stored;
\* track: the history claimed is recorded
OnResultClaimStep(track) ==
    /\ cbPending # 0
    /\ Put([monitors EXCEPT ![cbPending].state = "SCANNING",
                            ![cbPending].deviceAddress = cbAddr],
           hist, pc, idx)
    /\ claimed' = IF track /\ monitors[cbPending].state = "DISCONNECTED"
                  THEN claimed \cup {cbPending} ELSE claimed
    /\ cbPending' = 0
    /\ cbAddr' = 0
    /\ UNCHANGED <<link, subscribed, scanRunning, scanningActive, loopVars, left>>
    /\ ignored' = FALSE
    /\ UNCHANGED <<confVars, readerVars, codecVars, attempted>>

OnResultClaim == OnResultClaimStep(FALSE)

OnResultClaimTick == OnResultClaimStep(TRUE)

\* notifyCallback on the notify characteristic of Monitor m
Notify(m) ==
    /\ cbPending = 0
    /\ link[m] /\ subscribed[m]
    /\ \E n \in Notifications :
        IF monitors[m].pNotifyChar
        THEN Put([monitors EXCEPT ![m] = Received(@, n.length, n.decrypted, Millis)],
                 [hist EXCEPT ![m].silence = IF Accepts(n.length, n.decrypted) THEN 0 ELSE @],
                 pc, idx)
        ELSE UNCHANGED <<monitors, hist>>
    /\ UNCHANGED <<link, subscribed, scanRunning, scanningActive, cbPending, cbAddr, 
                   loopVars, left, claimed>>
    /\ ignored' = FALSE
    /\ UNCHANGED <<confVars, readerVars, codecVars, attempted>>

\* ClientCallbacks::onDisconnect: the link of Monitor m went down
OnDisconnect(m) ==
    /\ cbPending = 0
    /\ link[m]
    /\ link' = [link EXCEPT ![m] = FALSE]
    /\ subscribed' = [subscribed EXCEPT ![m] = FALSE]
    /\ Put([monitors EXCEPT ![m] = DisconnectCallback(monitors[m])], hist, pc, idx)
    /\ UNCHANGED <<scanRunning, scanningActive, cbPending, cbAddr, loopVars, left, claimed>>
    /\ ignored' = FALSE
    /\ UNCHANGED <<confVars, readerVars, codecVars, attempted>>

\* one time unit passes: every stored instant is one unit older; one loop() iteration
\* lasts at most MaxTickDur
Aged(mon) ==
    [mon EXCEPT !.lastRetryTime = Older(@), !.stateEnterTime = Older(@),
                !.lastNotificationTime = Older(@), !.lastUpdateTime = Older(@)]

Advance ==
    /\ now < MaxTickDur
    /\ now' = Older(now)
    /\ currentTime' = IF pc = "sup2" THEN Older(currentTime) ELSE 0
    /\ Put([m \in Mon |-> Aged(monitors[m])],
           [m \in Mon |-> [sinceFail |-> Min(hist[m].sinceFail + 1, ElapsedCap),
                           silence |-> Min(hist[m].silence + 1, ElapsedCap),
                           inMon |-> Min(hist[m].inMon + 1, ElapsedCap),
                           late |-> hist[m].late
                                    \/ hist[m].silence + 1 >= NOTIFICATION_TIMEOUT_MS]],
           pc, idx)
    /\ UNCHANGED <<link, subscribed, scanRunning, scanningActive, cbPending, cbAddr,
                   pc, idx, needToConnect, hsIdx, written, left, claimed>>
    /\ ignored' = FALSE
    /\ UNCHANGED <<confVars, readerVars, codecVars, attempted>>

LoopStep ==
    \/ LoopStart \/ Visit \/ ConnectOk \/ ConnectFail \/ Service \/ Chars
    \/ Subscribe \/ SubscribeStale \/ Connected \/ HsEnter \/ HsWrite \/ HsDone
    \/ Checks \/ Supervise \/ LoopEnd

Next ==
    \/ LoopStart \/ Visit \/ ConnectOk \/ ConnectFail \/ Service \/ Chars
    \/ Subscribe \/ SubscribeStale \/ Connected \/ HsEnter \/ HsWrite \/ HsDone \/ Crash
    \/ Checks \/ Supervise \/ LoopEnd
    \/ OnResult \/ OnResultClaim
    \/ \E m \in Mon : Notify(m)
    \/ \E m \in Mon : OnDisconnect(m)
    \/ Advance

Spec == Init /\ [][Next]_vars

\* The loop() task keeps running (every blocking call returns), time passes, and the
\* delay(100) inside onResult ends.  Advertisements, notifications, disconnects and the
\* outcome of an undefined dereference are not forced.
FairSpec ==
    /\ Init /\ [][Next]_vars
    /\ WF_vars(LoopStep)
    /\ WF_vars(Advance)
    /\ WF_vars(OnResultClaim)

\* The same program with the history of the claims made in each loop() iteration, among
\* devices that send no telemetry: the claims depend on advertisements only.
TickNext ==
    \/ LoopStart \/ Visit \/ ConnectOk \/ ConnectFail \/ Service \/ Chars
    \/ Subscribe \/ SubscribeStale \/ Connected \/ HsEnter \/ HsWrite \/ HsDone \/ Crash
    \/ Checks \/ Supervise \/ LoopEndTick
    \/ OnResult \/ OnResultClaimTick
    \/ \E m \in Mon : OnDisconnect(m)
    \/ Advance

TickSpec == Init /\ [][TickNext]_vars


\* ------------------------------------------------------------ properties

\* the step is the restart after a panic
Reboot == pc # "start" /\ pc' = "start"

\* the loop() step ends the connection attempt of Monitor idx without success
AttemptFails ==
    /\ pc \in {"connect", "service", "chars", "subscribe"}
    /\ pc' \in {"checks", "visit", "end"}

\* the loop() step is the supervisor's forced reset of Monitor m
SupervisorReset(m) ==
    /\ pc = "sup2" /\ pc' # "sup2" /\ idx = m
    /\ monitors[m].state = "MONITORING"
    /\ monitors'[m].state = "DISCONNECTED"

\* the loop() step is the visit of Monitor m: its cooldown check and grace test
SupervisorVisit(m) ==
    /\ pc \in {"visit", "checks"} /\ idx = m
    /\ (pc' # pc \/ idx' # idx)

\* Monitor m was MONITORING t time units ago and its last accepted frame (or its entry
\* into MONITORING) was then more than the grace period plus NOTIFICATION_TIMEOUT_MS
\* old; the time since it entered MONITORING is below the period of the clock
Silent(m, t) ==
    /\ monitors[m].state = "MONITORING"
    /\ hist[m].silence - t > GRACE_PERIOD + NOTIFICATION_TIMEOUT_MS
    /\ hist[m].inMon < ElapsedCap

\* Monitor m as cleanup() leaves it
CleanedUp(m) ==
    /\ monitors[m].state = "DISCONNECTED"
    /\ ~monitors[m].pClient /\ ~monitors[m].pWriteChar /\ ~monitors[m].pNotifyChar
    /\ ~link[m] /\ ~subscribed[m]

\* C1: in every reachable state at most one Monitor is in SCANNING or CONNECTING.
C1_SingleAttempt ==
    Cardinality({m \in Mon : monitors[m].state \in {"SCANNING", "CONNECTING"}}) <= 1

\* C2: within one loop() iteration at most one Monitor leaves SCANNING (starts a
\* connect attempt), whatever the outcome of the attempt.
C2_OneAttemptPerTick == Cardinality(left) <= 1

\* C3: under fair loop() iterations and advancing time a Monitor that is in CONNECTING,
\* HANDSHAKE or COOLDOWN eventually reaches MONITORING or DISCONNECTED.
C3_NeverStuck ==
    \A m \in Mon :
        (monitors[m].state \in {"CONNECTING", "HANDSHAKE", "COOLDOWN"})
            ~> (monitors[m].state \in {"MONITORING", "DISCONNECTED"})

\* C4: a failed connect increments connectRetries by one; the Monitor then goes to
\* DISCONNECTED while connectRetries < MAX_CONNECT_RETRIES and to COOLDOWN exactly on
\* the attempt that makes connectRetries equal MAX_CONNECT_RETRIES.
C4_RetryPolicy ==
    [][(pc = "connect" /\ pc' = "checks") =>
        LET r == monitors[idx].connectRetries + 1 IN
        /\ monitors'[idx].connectRetries = r
        /\ (r < MAX_CONNECT_RETRIES => monitors'[idx].state = "DISCONNECTED")
        /\ (monitors'[idx].state = "COOLDOWN" <=> r = MAX_CONNECT_RETRIES)]_vars

\* C5: a Monitor leaves COOLDOWN for DISCONNECTED only when RETRY_COOLDOWN_MS have
\* elapsed since its final connect attempt failed, and then connectRetries is 0.
C5_FullCooldown ==
    [][\A m \in Mon :
        (monitors[m].state = "COOLDOWN" /\ monitors'[m].state = "DISCONNECTED" /\ ~Reboot)
            => /\ hist[m].sinceFail >= RETRY_COOLDOWN_MS
               /\ monitors'[m].connectRetries = 0]_vars

\* C6: under fair loop() iterations and advancing time every Monitor in COOLDOWN
\* eventually is DISCONNECTED with connectRetries 0.
C6_CooldownExpires ==
    \A m \in Mon :
        (monitors[m].state = "COOLDOWN")
            ~> (monitors[m].state = "DISCONNECTED" /\ monitors[m].connectRetries = 0)

\* C7: every failing step of the connection sequence (connect, service, characteristics,
\* subscribe) increments connectRetries and sends the Monitor to DISCONNECTED or, at
\* MAX_CONNECT_RETRIES, to COOLDOWN.
C7_EveryFailureCounts ==
    [][AttemptFails =>
        LET r == monitors[idx].connectRetries + 1 IN
        /\ monitors'[idx].connectRetries = r
        /\ monitors'[idx].state = IF r >= MAX_CONNECT_RETRIES THEN "COOLDOWN"
                                  ELSE "DISCONNECTED"]_vars

\* C8: when the supervisor visits a Monitor that is MONITORING and has received no
\* valid frame for longer than the grace period plus NOTIFICATION_TIMEOUT_MS, the
\* grace test passes and the timeout test resets the Monitor to DISCONNECTED with its
\* handles cleared; a Monitor that cleanup() has reset changes again only by being
\* claimed by onResult (later iterations cause no further transition or cleanup).
C8_TimeoutOnce ==
    [][\A m \in Mon :
        /\ (SupervisorVisit(m) /\ Silent(m, 0)) => pc' = "sup2"
        /\ (pc = "sup2" /\ pc' # "sup2" /\ idx = m /\ Silent(m, currentTime))
              => /\ monitors'[m].state = "DISCONNECTED"
                 /\ ~monitors'[m].pClient
                 /\ ~monitors'[m].pWriteChar /\ ~monitors'[m].pNotifyChar
        /\ (CleanedUp(m) /\ ~Reboot)
              => /\ link'[m] = link[m] /\ subscribed'[m] = subscribed[m]
                 /\ \/ monitors'[m] = monitors[m]
                    \/ monitors'[m] = [monitors[m] EXCEPT !.state = "SCANNING",
                                                          !.deviceAddress = Serial(m)]]_vars

\* C8 happens: the supervisor is past the grace test of a Monitor that had been silent
\* for longer than the grace period plus NOTIFICATION_TIMEOUT_MS when it was visited
C8_Witness ==
    \E m \in Mon : pc = "sup2" /\ idx = m /\ Silent(m, currentTime)

\* C9: a Monitor in MONITORING whose valid frames arrive at intervals shorter than
\* NOTIFICATION_TIMEOUT_MS is never reset by the supervisor: a forced reset happens
\* only to a Monitor that, since it entered MONITORING, has been without a valid frame
\* for NOTIFICATION_TIMEOUT_MS at least once.
C9_NoSpuriousReset ==
    [][\A m \in Mon : SupervisorReset(m) => hist[m].late]_vars

\* C10: the supervisor never forces a reset during the grace period after the Monitor
\* entered MONITORING, and entering MONITORING sets stateEnterTime and
\* lastNotificationTime to millis().
C10_GracePeriod ==
    [][\A m \in Mon :
        /\ SupervisorReset(m) => hist[m].inMon > GRACE_PERIOD
        /\ (monitors[m].state # "MONITORING" /\ monitors'[m].state = "MONITORING")
              => /\ monitors'[m].stateEnterTime = Millis
                 /\ monitors'[m].lastNotificationTime = Millis]_vars

\* C10 happens: the loop visits a Monitor that entered MONITORING one grace period ago
\* and has received nothing since
C10_Witness ==
    \E m \in Mon :
        /\ pc = "visit" /\ idx = m
        /\ monitors[m].state = "MONITORING"
        /\ hist[m].inMon = GRACE_PERIOD
        /\ hist[m].silence = GRACE_PERIOD

\* the step is the transport disconnect of Monitor m, delivered by the host task
DisconnectEvent(m) == link[m] /\ ~link'[m] /\ pc' = pc /\ idx' = idx

\* the connection, write-characteristic and notify-characteristic handles of m are absent
HandlesAbsent(mon) == ~mon.pClient /\ ~mon.pWriteChar /\ ~mon.pNotifyChar

\* C11: whenever a Monitor is in DISCONNECTED, SCANNING or COOLDOWN its connection
\* handle, write-characteristic handle and notify-characteristic handle are all absent.
C11_HandlesAbsent ==
    \A m \in Mon :
        monitors[m].state \in {"DISCONNECTED", "SCANNING", "COOLDOWN"}
            => HandlesAbsent(monitors[m])

\* C12: the supervisor's forced reset and the transport disconnect of a MONITORING
\* Monitor leave it in the same state: DISCONNECTED, all three handles absent,
\* connectRetries and reading unchanged.
C12_TimeoutLikeDisconnect ==
    [][\A m \in Mon :
        (monitors[m].state = "MONITORING" /\ (SupervisorReset(m) \/ DisconnectEvent(m)))
            => /\ monitors'[m].state = "DISCONNECTED"
               /\ HandlesAbsent(monitors'[m])
               /\ monitors'[m].connectRetries = monitors[m].connectRetries
               /\ monitors'[m].reading = monitors[m].reading]_vars

\* the transition table: the states from which each state may be entered
EnteredFrom(st) ==
    CASE st = "SCANNING" -> {"DISCONNECTED"}
      [] st = "CONNECTING" -> {"SCANNING"}
      [] st = "HANDSHAKE" -> {"CONNECTING"}
      [] st = "MONITORING" -> {"HANDSHAKE"}
      [] st = "COOLDOWN" -> {"CONNECTING"}
      [] OTHER -> States

\* C13: every change of a Monitor's state follows the transition table: SCANNING is
\* entered only from DISCONNECTED, CONNECTING only from SCANNING, HANDSHAKE only from
\* CONNECTING, MONITORING only from HANDSHAKE and COOLDOWN only from CONNECTING.
C13_TransitionTable ==
    [][\A m \in Mon :
        monitors'[m].state # monitors[m].state
            => monitors[m].state \in EnteredFrom(monitors'[m].state)]_vars

\* C14: the shared scan is never running while a Monitor is in CONNECTING or HANDSHAKE.
C14_NoScanWhileConnecting ==
    scanRunning => \A m \in Mon : monitors[m].state \notin {"CONNECTING", "HANDSHAKE"}

\* C15: onResult acts on an advertisement only for a Monitor that is exactly in
\* DISCONNECTED without a live connection: it stops the scan only for such a Monitor,
\* and it writes the state and the cached address only of such a Monitor.
C15_ClaimOnlyDisconnected ==
    [][/\ (cbPending = 0 /\ cbPending' # 0)
            => /\ monitors[cbPending'].state = "DISCONNECTED"
               /\ ~(monitors[cbPending'].pClient /\ link[cbPending'])
       /\ (cbPending # 0 /\ cbPending' = 0 /\ ~Reboot)
            => /\ monitors[cbPending].state = "DISCONNECTED"
               /\ ~(monitors[cbPending].pClient /\ link[cbPending])]_vars

\* every Monitor is idle and eligible: DISCONNECTED without a live connection
AllIdle == \A k \in Mon : monitors[k].state = "DISCONNECTED" /\ ~(monitors[k].pClient /\ link[k])

\* C16: with every Monitor idle and eligible, onResult picks the Monitor whose configured
\* address equals the advertised one without changing any Monitor, and its claim moves
\* only that Monitor to SCANNING with the advertised address cached; every field of
\* every other Monitor (state, cached address, retries, handles) is unchanged.
C16_OnlyMatchClaimed ==
    [][/\ (cbPending = 0 /\ cbPending' # 0 /\ AllIdle)
            => /\ Serial(cbPending') = cbAddr'
               /\ monitors' = monitors
       /\ \A m \in Mon :
            (cbPending = m /\ cbPending' = 0 /\ ~Reboot /\ AllIdle)
                => /\ Serial(m) = cbAddr
                   /\ monitors'[m] = [monitors[m] EXCEPT !.state = "SCANNING",
                                                         !.deviceAddress = cbAddr]
                   /\ \A k \in Mon \ {m} : monitors'[k] = monitors[k]]_vars

\* C16 happens: the second Monitor of the table has been claimed by its own address
\* and the first one is untouched
C16_Witness ==
    /\ cbPending = 0
    /\ monitors[1] = NewMonitor
    /\ monitors[2] = [NewMonitor EXCEPT !.state = "SCANNING", !.deviceAddress = Serial(2)]

\* C17: an onResult for an advertisement that carries no name or another name than
\* "Battery Guard" changes no Monitor and does not stop the scan, even when a Monitor
\* with that configured address could be claimed.
C17_NameFilter ==
    [][ignored' => /\ monitors' = monitors
                   /\ scanRunning' = scanRunning
                   /\ cbPending' = cbPending /\ cbAddr' = cbAddr]_vars

\* C17 happens: such an advertisement has just been delivered while the scan runs
C17_Witness == ignored /\ scanRunning /\ cbPending = 0

\* C18: between the start of one loop() iteration and the start of the next, onResult
\* moves at most one Monitor from DISCONNECTED to SCANNING.
C18_OneClaimPerTick == Cardinality(claimed) <= 1

\* C19: a Monitor enters HANDSHAKE only with the notification subscription in place,
\* and no handshake write is issued without it.
C19_SubscribedBeforeHandshake ==
    [][/\ \A m \in Mon :
            (monitors[m].state # "HANDSHAKE" /\ monitors'[m].state = "HANDSHAKE")
                => subscribed[m]
       /\ hsIdx' = hsIdx + 1 => subscribed[idx]]_vars

\* the handshake for battery type t: session init, battery type select carrying t,
\* config 0x1E, config 0xCA94, pre-finalization, finalization
HandshakeSequence(t) == << <<1, 0>>, <<8, t>>, <<5, 30>>, <<5, 51860>>, <<3, 0>>, <<7, 0>> >>

Frame(tag, sign, mag, st, soc, v, rise, drop, pad) ==
    [i \in 0..(FRAME_LEN - 1) |->
        CASE i = 0 -> tag[1]
          [] i = 1 -> tag[2]
          [] i = 2 -> 7
          [] i = 3 -> sign
          [] i = 4 -> mag
          [] i = 5 -> st
          [] i = 6 -> soc
          [] i = 7 -> v[1]
          [] i = 8 -> v[2]
          [] i = 9 -> rise[1]
          [] i = 10 -> rise[2]
          [] i = 11 -> drop[1]
          [] i = 12 -> drop[2]
          [] OTHER -> pad[i - 12]]

Tag == <<209, 85>>
Edge == {0, 1, 255}

CodecFrames ==
    {Frame(Tag, s, m, 2, 59, <<4, 176>>, <<0, 0>>, <<0, 2>>, <<0, 0, 0>>) :
        s \in {0, 1, 2, 255}, m \in Bytes}
    \cup {Frame(Tag, 0, 23, st, 59, v, <<0, 0>>, <<0, 2>>, <<0, 0, 0>>) :
        st \in Bytes, v \in {<<4, 176>>, <<5, 50>>, <<0, 0>>}}
    \cup {Frame(Tag, 1, 23, st, soc, <<4, 176>>, <<0, 0>>, <<0, 2>>, <<0, 0, 0>>) :
        st \in {0, 1, 2}, soc \in Bytes}
    \cup {Frame(Tag, 0, 23, 1, 100, <<hi, lo>>, <<0, 0>>, <<0, 2>>, <<0, 0, 0>>) :
        hi \in Bytes, lo \in {0, 176, 255}}
    \cup {Frame(Tag, 0, 23, 1, 100, <<hi, lo>>, <<0, 1>>, <<1, 0>>, <<0, 0, 0>>) :
        hi \in {0, 4, 255}, lo \in Bytes}
    \cup {Frame(Tag, 0, 23, 2, 59, <<4, 176>>, <<b, c>>, <<c, b>>, <<0, 0, 0>>) :
        b \in Bytes, c \in Edge}
    \cup {Frame(Tag, 0, 23, 2, 59, <<5, 50>>, <<0, 0>>, <<0, 2>>, <<x, y, z>>) :
        x \in Edge, y \in Edge, z \in Edge}
    \cup {Frame(<<a, b>>, 0, 23, 2, 59, <<4, 176>>, <<0, 0>>, <<0, 2>>, <<0, 0, 0>>) :
        a \in Bytes, b \in {85, 0}}
    \cup {Frame(<<a, b>>, 1, 23, 1, 59, <<4, 176>>, <<0, 0>>, <<0, 2>>, <<0, 0, 0>>) :
        a \in {209, 0}, b \in Bytes}

\* the lengths a notification arrives with
CodecLengths == {0, 1, FRAME_LEN - 1, FRAME_LEN, FRAME_LEN + 1, 2 * FRAME_LEN}

\* the device encrypts each frame with AES_KEY; pData are the first 16 bytes it sends
CodecInputs ==
    {[phase |-> "pending", length |-> FRAME_LEN, plain |-> p,
      pData |-> AesEncrypt(AES_KEY, p), decrypted |-> AES_IV] : p \in CodecFrames}
    \cup {[phase |-> "pending", length |-> l, plain |-> Payload(f),
           pData |-> AesEncrypt(AES_KEY, Payload(f)), decrypted |-> AES_IV] :
            l \in CodecLengths, f \in 1..(NumFrames + 1)}

\* a Monitor that is subscribed: in HANDSHAKE before its first frame, or in MONITORING
\* with the reading of an earlier frame
CodecMonitors ==
    {[NewMonitor EXCEPT !.state = "HANDSHAKE", !.pClient = TRUE, !.pWriteChar = TRUE,
                        !.pNotifyChar = TRUE],
     [NewMonitor EXCEPT !.state = "MONITORING", !.pClient = TRUE, !.pWriteChar = TRUE,
                        !.pNotifyChar = TRUE, !.stateEnterTime = 1,
                        !.lastNotificationTime = 1, !.lastUpdateTime = 1,
                        !.reading = Decoded(Payload(2))]}

CodecInit ==
    /\ \E m \in Mon, mon \in CodecMonitors :
        /\ monitors = [k \in Mon |-> IF k = m THEN [mon EXCEPT !.deviceAddress = k]
                                     ELSE NewMonitor]
        /\ link = [k \in Mon |-> k = m]
        /\ subscribed = [k \in Mon |-> k = m]
    /\ rx \in CodecInputs
    /\ scanRunning = TRUE
    /\ scanningActive = TRUE
    /\ cbPending = 0
    /\ cbAddr = 0
    /\ pc = "start"
    /\ idx = 1
    /\ now = 0
    /\ needToConnect = FALSE
    /\ currentTime = 0
    /\ hsIdx = 0
    /\ written = <<>>
    /\ hist = [m \in Mon |-> NoHistory]
    /\ left = {}
    /\ claimed = {}
    /\ attempted = FALSE
    /\ display = NoDisplay
    /\ publisher = NoPublisher
    /\ ignored = FALSE
    /\ devices = DeviceTable
    /\ configIndex = [m \in Mon |-> m]
    /\ activeMonitorCount = NumMonitors
    /\ wr = 0
    /\ snap = <<>>

\* notifyCallback(pChar, pData, length, isNotify): the Monitor whose pNotifyChar is pChar
\* is looked up and the notification is handled in one piece
CodecDeliver ==
    /\ rx.phase = "pending"
    /\ \E m \in Mon :
        /\ link[m] /\ subscribed[m] /\ monitors[m].pNotifyChar
        /\ monitors' = [monitors EXCEPT
                           ![m] = NotifyCallback(@, rx.length, rx.pData, Millis)]
    /\ rx' = [rx EXCEPT !.phase = "handled",
                        !.decrypted = IF LengthOk(rx.length)
                                      THEN AesDecrypt(AES_KEY, rx.pData) ELSE @]
    /\ UNCHANGED <<link, subscribed, scanRunning, scanningActive, cbPending, cbAddr,
                   loopVars, hist, left, claimed, attempted, ignored, confVars, readerVars, wr, snap>>

CodecNext == CodecDeliver

CodecSpec == CodecInit /\ [][CodecNext]_vars

\* the step is notifyCallback() handling the notification rx
Handles == rx.phase = "pending" /\ rx'.phase = "handled"

\* the notification rx was handled and passed both tests of notifyCallback()
Stored == rx.phase = "handled" /\ LengthOk(rx.length) /\ HeaderOk(rx.decrypted)

\* the Monitor that received the notification rx
Notified == CHOOSE m \in Mon : link[m]

\* C21: a notification whose length is not 16 changes nothing in any Monitor: reading,
\* lastNotificationTime, lastUpdateTime, state, connectRetries and the handles of every
\* Monitor are what they were, and so are the links and the subscriptions.
C21_WrongLengthIgnored ==
    [][Handles /\ rx.length # FRAME_LEN
       => /\ monitors' = monitors
          /\ link' = link
          /\ subscribed' = subscribed]_vars

\* a notification one byte too long, carrying a well-formed frame that differs from the
\* stored reading, was handled
C21_Witness ==
    /\ rx.phase = "handled"
    /\ rx.length = FRAME_LEN + 1
    /\ HeaderOk(AesDecrypt(AES_KEY, rx.pData))
    /\ monitors[Notified].reading # Decoded(rx.plain)
    /\ monitors[Notified].lastNotificationTime # Millis


\* C22: a 16-byte notification whose first two decrypted bytes are not D1 55 is dropped:
\* the reading, lastNotificationTime, the state and connectRetries of every Monitor are
\* what they were (no field of any Monitor changes), so the silence keeps counting.
C22_BadHeaderDropped ==
    [][Handles /\ rx.length = FRAME_LEN
       /\ (rx'.decrypted[0] # 209 \/ rx'.decrypted[1] # 85)
       => /\ monitors' = monitors
          /\ link' = link
          /\ subscribed' = subscribed]_vars

\* a 16-byte notification with the right first byte and a wrong second byte was handled
\* by a Monitor in MONITORING whose last accepted frame is one time unit old
C22_Witness ==
    /\ rx.phase = "handled"
    /\ rx.length = FRAME_LEN
    /\ rx.decrypted[0] = 209
    /\ rx.decrypted[1] # 85
    /\ monitors[Notified].state = "MONITORING"
    /\ monitors[Notified].lastNotificationTime = 1
    /\ monitors[Notified].reading # Decoded(rx.decrypted)


\* C23: for every sign byte and every magnitude byte 0..255 of an accepted frame, the
\* stored temperature is minus the magnitude when the sign byte is 1 and the magnitude
\* otherwise.
C23_Temperature ==
    Stored =>
        monitors[Notified].reading.temperature =
            IF rx.decrypted[3] = 1 THEN 0 - rx.decrypted[4] ELSE rx.decrypted[4]


\* C24: for every accepted frame the stored voltage, in hundredths of a volt, is
\* 256 * byte 7 + byte 8, the rise counter is 256 * byte 9 + byte 10 and the drop counter
\* is 256 * byte 11 + byte 12; the reading is determined by bytes 3 to 12, so bytes 13
\* to 15 have no effect on it.
C24_BigEndianFields ==
    Stored =>
        monitors[Notified].reading =
            [voltage |-> 256 * rx.decrypted[7] + rx.decrypted[8],
             rapidVoltageRise |-> 256 * rx.decrypted[9] + rx.decrypted[10],
             rapidVoltageDrop |-> 256 * rx.decrypted[11] + rx.decrypted[12],
             soc |-> rx.decrypted[6],
             status |-> rx.decrypted[5],
             temperature |-> ToInt8(IF rx.decrypted[3] = 1 THEN 0 - ToInt8(rx.decrypted[4])
                                    ELSE rx.decrypted[4])]

\* an accepted frame with 13.30 V and non-zero padding was stored
C24_Witness ==
    /\ Stored
    /\ rx.decrypted[13] = 255 /\ rx.decrypted[14] = 1 /\ rx.decrypted[15] = 255
    /\ monitors[Notified].reading.voltage = 1330
    /\ monitors[Notified].reading.rapidVoltageDrop = 2

\* C25: for every accepted frame the stored status is byte 5 as it is, for every byte
\* value 0..255 and whatever the voltage, and the stored state of charge is byte 6.
C25_RawStatus ==
    Stored =>
        /\ monitors[Notified].reading.status = rx.decrypted[5]
        /\ monitors[Notified].reading.soc = rx.decrypted[6]

\* a frame with a status outside BatteryStatus and a voltage above 13.3 V was stored
C25_Witness ==
    /\ Stored
    /\ rx.decrypted[5] = 255
    /\ rx.decrypted[6] = 59
    /\ monitors[Notified].reading.voltage = 1330
    /\ monitors[Notified].reading.status = 255


\* --------------------------------------- the decoder and a reader of the snapshot
\* notifyCallback() stores an accepted frame one field at a time, on the NimBLE host
\* task; MQTTClient::buildJsonPayload() reads the data fields of the same Monitor one at
\* a time, on another task.  Neither takes a lock, so their steps interleave freely.

SnapshotFrames == 1..(NumFrames + 1)

\* the fields of a reading that buildJsonPayload() copies, in the order it reads them
Published(r) == <<r.voltage, r.soc, r.temperature, r.status>>

SnapshotInit ==
    /\ \E m \in Mon, f \in SnapshotFrames :
        /\ monitors = [k \in Mon |->
                         IF k = m
                         THEN [NewMonitor EXCEPT
                                  !.state = "MONITORING", !.pClient = TRUE,
                                  !.pWriteChar = TRUE, !.pNotifyChar = TRUE,
                                  !.deviceAddress = k, !.stateEnterTime = 1,
                                  !.lastNotificationTime = 1, !.lastUpdateTime = 1,
                                  !.reading = Decoded(Payload(f))]
                         ELSE NewMonitor]
        /\ link = [k \in Mon |-> k = m]
        /\ subscribed = [k \in Mon |-> k = m]
    /\ rx = NoRx
    /\ wr = 0
    /\ snap = <<>>
    /\ scanRunning = TRUE
    /\ scanningActive = TRUE
    /\ cbPending = 0
    /\ cbAddr = 0
    /\ pc = "start"
    /\ idx = 1
    /\ now = 0
    /\ needToConnect = FALSE
    /\ currentTime = 0
    /\ hsIdx = 0
    /\ written = <<>>
    /\ hist = [m \in Mon |-> NoHistory]
    /\ left = {}
    /\ claimed = {}
    /\ attempted = FALSE
    /\ display = NoDisplay
    /\ publisher = NoPublisher
    /\ ignored = FALSE
    /\ devices = DeviceTable
    /\ configIndex = [m \in Mon |-> m]
    /\ activeMonitorCount = NumMonitors

\* notifyCallback(): a notification of frame f arrives, is decrypted and passes the
\* length and header tests
DecoderAccept ==
    /\ rx = NoRx
    /\ \E f \in SnapshotFrames :
        LET pData == AesEncrypt(AES_KEY, Payload(f))
            decrypted == AesDecrypt(AES_KEY, pData)
        IN  /\ Accepts(FRAME_LEN, decrypted)
            /\ rx' = [phase |-> "pending", length |-> FRAME_LEN, plain |-> Payload(f),
                      pData |-> pData, decrypted |-> decrypted]
    /\ wr' = 0
    /\ UNCHANGED <<monitors, link, subscribed, scanRunning, scanningActive, cbPending,
                   cbAddr, loopVars, hist, left, claimed, attempted, ignored, confVars, readerVars, snap>>

\* notifyCallback(): the next assignment to a field of the Monitor, in program order;
\* after the last one the callback returns
DecoderStore ==
    /\ rx # NoRx
    /\ LET d == Decoded(rx.decrypted)
           m == Notified
           k == wr + 1
       IN  /\ monitors' =
                CASE k = 1 -> [monitors EXCEPT ![m].reading.temperature = d.temperature]
                  [] k = 2 -> [monitors EXCEPT ![m].reading.status = d.status]
                  [] k = 3 -> [monitors EXCEPT ![m].reading.soc = d.soc]
                  [] k = 4 -> [monitors EXCEPT ![m].reading.voltage = d.voltage]
                  [] k = 5 -> [monitors EXCEPT
                                  ![m].reading.rapidVoltageRise = d.rapidVoltageRise]
                  [] k = 6 -> [monitors EXCEPT
                                  ![m].reading.rapidVoltageDrop = d.rapidVoltageDrop]
                  [] k = 7 -> [monitors EXCEPT ![m].lastUpdateTime = Millis]
                  [] k = 8 -> [monitors EXCEPT ![m].lastNotificationTime = Millis]
           /\ wr' = IF k = STORES THEN 0 ELSE k
           /\ rx' = IF k = STORES THEN NoRx ELSE rx
    /\ UNCHANGED <<link, subscribed, scanRunning, scanningActive, cbPending,
                   cbAddr, loopVars, hist, left, claimed, attempted, ignored, confVars, readerVars, snap>>

\* buildJsonPayload(): the next read of a field of the Monitor, in program order
ReaderLoad ==
    /\ Len(snap) < LOADS
    /\ snap' = Append(snap, Published(monitors[Notified].reading)[Len(snap) + 1])
    /\ UNCHANGED <<monitors, link, subscribed, scanRunning, scanningActive, cbPending,
                   cbAddr, loopVars, hist, left, claimed, attempted, ignored, confVars, readerVars,
                   rx, wr>>

\* buildJsonPayload() returns the payload; the next call starts with an empty document
ReaderReturn ==
    /\ Len(snap) = LOADS
    /\ snap' = <<>>
    /\ UNCHANGED <<monitors, link, subscribed, scanRunning, scanningActive, cbPending,
                   cbAddr, loopVars, hist, left, claimed, attempted, ignored, confVars, readerVars,
                   rx, wr>>

SnapshotNext == DecoderAccept \/ DecoderStore \/ ReaderLoad \/ ReaderReturn

SnapshotSpec == SnapshotInit /\ [][SnapshotNext]_vars

\* C26: a reader that runs concurrently with the decoder never observes a reading that
\* mixes fields of two frames: what buildJsonPayload() has read when it returns is the
\* reading of one frame.
C26_AtomicUpdate ==
    Len(snap) = LOADS => \E f \in SnapshotFrames : snap = Published(Decoded(Payload(f)))

\* the reading that telemetry frame f stands for (frame 1: 12.00 V, 59 %, +23 degrees,
\* charging, 0 rises, 2 drops)
Telemetry(f) ==
    [voltage |-> 1200, soc |-> 59,
     temperature |-> IF f % 2 = 1 THEN 23 ELSE 0 - 23,
     status |-> IF f % 2 = 1 THEN 2 ELSE 1,
     rapidVoltageRise |-> f - 1, rapidVoltageDrop |-> 2]

Panic == pc \in {"subscribe", "hsWrite"} /\ pc' = "start"

\* the step is the disconnect callback of Monitor m
LinkLost(m) == link[m] /\ ~link'[m] /\ pc' = pc /\ idx' = idx

\* the step takes Monitor m into COOLDOWN or out of it
CooldownEdge(m) ==
    /\ ~Panic
    /\ monitors'[m].state # monitors[m].state
    /\ "COOLDOWN" \in {monitors[m].state, monitors'[m].state}

\* the step is the matcher's claim of Monitor m
Claimed(m) == cbPending = m /\ cbPending' = 0 /\ pc' = pc

\* C28: the latest reading persists across connection loss: the disconnect callback,
\* the supervisor's liveness reset, a failed connect attempt, entering or leaving
\* COOLDOWN and being claimed by the matcher all leave voltage, SOC, temperature,
\* status and both counters of the Monitor unchanged.
C28_ReadingPersists ==
    [][\A m \in Mon :
        (\/ LinkLost(m)
         \/ SupervisorReset(m)
         \/ AttemptFails /\ idx = m
         \/ CooldownEdge(m)
         \/ Claimed(m))
        => monitors'[m].reading = monitors[m].reading]_vars

\* a Monitor that delivered frame 1, lost its connection and then failed its connect
\* attempts until COOLDOWN still holds the reading of frame 1
C28_Witness ==
    \E m \in Mon :
        /\ monitors[m].state = "COOLDOWN"
        /\ ~link[m] /\ ~monitors[m].pClient
        /\ monitors[m].reading = Telemetry(1)

\* ------------------------------------------------------------ setup()
\*
\* setup() run once on every device table: entries enabled or not, addresses drawn
\* from 1..NumAddresses, equal addresses included.

\* the device tables: DEVICES[] of config.h
DeviceTables == [Mon -> [serial : 1..NumAddresses, enabled : BOOLEAN]]

\* setup(): for (i = 0; i < DEVICE_COUNT && i < 4; i++) if (DEVICES[i].enabled)
\* { monitors[activeMonitorCount].init(i, &DEVICES[i]); activeMonitorCount++; }
\* from entry i on, with the slots cfg and the count reached so far
RECURSIVE InitMonitors(_, _, _)
InitMonitors(i, cfg, count) ==
    IF i > NumMonitors
    THEN [configIndex |-> cfg, activeMonitorCount |-> count]
    ELSE IF Enabled(i)
         THEN InitMonitors(i + 1, [cfg EXCEPT ![count + 1] = i], count + 1)
         ELSE InitMonitors(i + 1, cfg, count)

\* the globals as constructed, before setup() runs
SetupInit ==
    /\ devices \in DeviceTables
    /\ configIndex = [m \in Mon |-> 0]
    /\ activeMonitorCount = 0
    /\ monitors = [m \in Mon |-> NewMonitor]
    /\ link = [m \in Mon |-> FALSE]
    /\ subscribed = [m \in Mon |-> FALSE]
    /\ scanRunning = FALSE
    /\ scanningActive = FALSE
    /\ cbPending = 0
    /\ cbAddr = 0
    /\ pc = "setup"
    /\ idx = 1
    /\ now = 0
    /\ needToConnect = FALSE
    /\ currentTime = 0
    /\ hsIdx = 0
    /\ written = <<>>
    /\ hist = [m \in Mon |-> NoHistory]
    /\ left = {}
    /\ claimed = {}
    /\ attempted = FALSE
    /\ display = NoDisplay
    /\ publisher = NoPublisher
    /\ ignored = FALSE
    /\ rx = NoRx
    /\ wr = 0
    /\ snap = <<>>

\* setup(): the enabled devices are activated in table order, then the scan is started
Setup ==
    /\ pc = "setup"
    /\ LET r == InitMonitors(1, configIndex, activeMonitorCount)
       IN  /\ configIndex' = r.configIndex
           /\ activeMonitorCount' = r.activeMonitorCount
    /\ monitors' = [m \in Mon |-> NewMonitor]
    /\ scanRunning' = TRUE
    /\ scanningActive' = TRUE
    /\ pc' = "start"
    /\ UNCHANGED <<devices, link, subscribed, cbPending, cbAddr, idx, now, needToConnect,
                   currentTime, hsIdx, written, hist, left, claimed, attempted, ignored,
                   readerVars, codecVars>>

SetupNext == Setup

SetupSpec == SetupInit /\ [][SetupNext]_vars

\* the device table holds two entries with the same address
DuplicateAddress ==
    \E i, j \in Mon : i # j /\ devices[i].serial = devices[j].serial

\* C29: a configuration table that contains two devices with the same address is
\* rejected at startup: when setup() has returned, no Monitor is activated and the scan
\* is not started.
C29_DuplicatesRejected ==
    (pc # "setup" /\ DuplicateAddress) => (activeMonitorCount = 0 /\ ~scanRunning)

\* ------------------------------------------------------------ the cipher wrappers
\*
\* The AES block transformation is library code (mbedtls); BlockEncrypt and
\* BlockDecrypt stand for it by a keyed permutation of the blocks and its inverse.
\* What the round trip then depends on is the code of aes_encrypt and aes_decrypt:
\* the same key, the fresh copy of the zero IV in each call, and matching modes.

C33_RetriesBounded ==
    \A m \in Mon :
        monitors[m].connectRetries >= 0 /\ monitors[m].connectRetries <= MAX_CONNECT_RETRIES

\* C34: whenever a Monitor is in HANDSHAKE or MONITORING its connectRetries is 0.
C34_RetriesClearedOnSuccess ==
    \A m \in Mon :
        monitors[m].state \in {"HANDSHAKE", "MONITORING"} => monitors[m].connectRetries = 0

\* the connection sequence of a Monitor succeeded: it is in HANDSHAKE over a subscribed
\* link, its handshake writes have started, and its counter is 0
C34_Witness ==
    \E m \in Mon :
        /\ monitors[m].state = "HANDSHAKE"
        /\ pc = "hsWrite" /\ idx = m /\ hsIdx > 0
        /\ monitors[m].connectRetries = 0
        /\ link[m] /\ subscribed[m]

\* C36: whenever a Monitor is in MONITORING, its connection handle, write-characteristic
\* handle and notify-characteristic handle are all present.
C36_MonitoringHasHandles ==
    \A m \in Mon :
        monitors[m].state = "MONITORING"
        => (monitors[m].pClient /\ monitors[m].pWriteChar /\ monitors[m].pNotifyChar)

\* ------------------------------------------------------------ notifications

\* the step is a notifyCallback() that wrote to some Monitor: the Monitors change while
\* the loop's position, the links, the matcher and the clock stay as they are
NotifyStep ==
    /\ monitors' # monitors
    /\ UNCHANGED <<pc, idx, now, needToConnect, hsIdx, written, link, subscribed,
                   cbPending, cbAddr, scanRunning>>

\* everything of Monitor m but its reading and its timestamps is unchanged by the step
SameConnection(m) ==
    /\ monitors'[m].state = monitors[m].state
    /\ monitors'[m].connectRetries = monitors[m].connectRetries
    /\ monitors'[m].deviceAddress = monitors[m].deviceAddress
    /\ monitors'[m].pClient = monitors[m].pClient
    /\ monitors'[m].pWriteChar = monitors[m].pWriteChar
    /\ monitors'[m].pNotifyChar = monitors[m].pNotifyChar

\* C37: a notification updates the reading of the one Monitor whose notify-characteristic
\* handle it arrived on and of no other Monitor, and it never changes any Monitor's
\* state, connectRetries, cached address or transport handles; a notification on a
\* handle owned by no Monitor changes nothing.
C37_NotificationFrame ==
    [][NotifyStep =>
        \E m \in Mon :
            /\ link[m] /\ subscribed[m] /\ monitors[m].pNotifyChar
            /\ SameConnection(m)
            /\ \A k \in Mon \ {m} : monitors'[k] = monitors[k]]_vars

\* two Monitors are in MONITORING over subscribed links; one has received frame 1 and
\* the other has no reading yet
C37_Witness ==
    \E m, k \in Mon :
        /\ m # k
        /\ monitors[m].state = "MONITORING" /\ monitors[k].state = "MONITORING"
        /\ link[m] /\ link[k] /\ subscribed[m] /\ subscribed[k]
        /\ monitors[m].pNotifyChar /\ monitors[k].pNotifyChar
        /\ monitors[m].reading = Telemetry(1)
        /\ monitors[k].reading = NoReading

\* C38: a Monitor's reading is updated by a notification only while that Monitor is in
\* MONITORING: a valid frame arriving while the Monitor is in CONNECTING or HANDSHAKE
\* leaves the reading unchanged.
C38_OnlyWhileMonitoring ==
    [][\A m \in Mon :
        (NotifyStep /\ monitors'[m].reading # monitors[m].reading)
        => monitors[m].state = "MONITORING"]_vars

\* ------------------------------------------------------------ the shared scan

\* the step is the end of a loop() iteration
TickEnd == pc = "end" /\ pc' = "start"

\* the step is loop() starting the scan
ScanRestart == TickEnd /\ ~scanRunning /\ scanRunning'

\* C35: whenever the scan is stopped and no connect attempt was made in a tick, the scan
\* is running and scanningActive is true at the end of that tick; consequently, after
\* any connect attempt ends the scan is running again within two ticks: when the tick of
\* the attempt ended with the scan stopped, the tick that follows it ends with the scan
\* running.
C35_ScanRestarted ==
    [][TickEnd =>
        /\ (~scanRunning /\ left = {}) => (scanRunning' /\ scanningActive')
        /\ attempted => scanRunning']_vars

\* C39: the control loop never starts the shared scan while some Monitor is in SCANNING
\* waiting for its connect attempt, including when the matcher's claim arrives in the
\* middle of a tick after that Monitor's slot was already visited.
C39_NoScanWhileClaimed ==
    [][ScanRestart => \A m \in Mon : monitors[m].state # "SCANNING"]_vars

\* ------------------------------------------------------------ the cooldown period

\* the loop() step is the cooldown check of Monitor m
CooldownVisit(m) == pc = "checks" /\ pc' # pc /\ idx = m

\* C40: with the millisecond clock an unsigned counter that wraps around, a Monitor in
\* COOLDOWN leaves COOLDOWN at the first tick at which RETRY_COOLDOWN_MS have elapsed
\* since lastRetryTime, and not before: the cooldown check of such a tick takes it to
\* DISCONNECTED, and no step takes it out of COOLDOWN while less than RETRY_COOLDOWN_MS
\* have elapsed since lastRetryTime (the restart after a panic aside).
C40_CooldownAcrossWrap ==
    [][\A m \in Mon :
        monitors[m].state = "COOLDOWN" =>
            /\ (CooldownVisit(m) /\ Sub(now, monitors[m].lastRetryTime) >= RETRY_COOLDOWN_MS)
               => monitors'[m].state = "DISCONNECTED"
            /\ (monitors'[m].state # "COOLDOWN" /\ ~Panic)
               => Sub(Millis, monitors[m].lastRetryTime) >= RETRY_COOLDOWN_MS]_vars

\* ---------------------------------------------------------------------------
\* The display task: rotation between the connected devices
\* ---------------------------------------------------------------------------

\* what neither the display task nor the publisher writes
programVars ==
    <<monitors, link, subscribed, scanRunning, scanningActive, cbPending, cbAddr,
      loopVars, hist, left, claimed, attempted, ignored, confVars, codecVars>>

\* displayTask(): connectedDevices[0 .. connectedCount - 1], the shown slots in
\* ascending order (1-based here)
ConnectedDevices(shown) ==
    LET S == {i \in Slot : shown[i]}
    IN  CHOOSE s \in [1..Cardinality(S) -> S] :
            \A a, b \in 1..Cardinality(S) : a < b => s[a] < s[b]

\* the BLE side sets or clears g_displayData[i].connected of an active slot
DisplayData(i, v) ==
    /\ display.shown[i] # v
    /\ display' = [display EXCEPT !.shown[i] = v]
    /\ UNCHANGED <<programVars, publisher>>

\* displayTask(): one refresh, DISPLAY_UPDATE_INTERVAL_MS after the one before it.
\* connectedDevices[] is an uninitialised local: an element at or beyond
\* connectedCount holds any value
Refresh ==
    LET connectedDevices == ConnectedDevices(display.shown)
        connectedCount == Len(connectedDevices)
        elapsed == IF display.sinceSwitch < SwitchTicks THEN display.sinceSwitch + 1
                   ELSE SwitchTicks
        switch == connectedCount > 1 /\ elapsed >= SwitchTicks
        rotated == IF switch THEN (display.currentDeviceIndex + 1) % connectedCount
                   ELSE display.currentDeviceIndex
        reset == connectedCount <= 1
        index == IF reset THEN 0 ELSE rotated
    IN  /\ UNCHANGED <<programVars, publisher>>
        /\ \E garbage \in Slot \cup {MAX_MONITORS} :
            display' = [display EXCEPT
                !.currentDeviceIndex = index,
                !.sinceSwitch = IF switch \/ reset THEN 0 ELSE elapsed,
                !.connectedCount = connectedCount,
                !.selected = IF connectedCount = 0 THEN NoDraw
                             ELSE IF index < connectedCount THEN connectedDevices[index + 1]
                             ELSE garbage]

DisplayNext ==
    \/ \E i \in Slot, v \in BOOLEAN : DisplayData(i, v)
    \/ Refresh

DisplaySpec == Init /\ [][DisplayNext]_vars

\* C31: whenever the display task has selected a device to draw, its rotation index is
\* smaller than the number of connected devices it counted in that refresh, and the slot
\* it hands to drawDevice() is one of those it counted
C31_DrawsConnected ==
    display.selected # NoDraw
        => /\ display.currentDeviceIndex < display.connectedCount
           /\ display.selected \in Slot

\* ---------------------------------------------------------------------------
\* The telemetry publisher: one state publish per device and interval
\* ---------------------------------------------------------------------------

\* now - lastPublishTime[index], an unsigned long subtraction
PublishElapsed(t, last) == (t - last + WrapMod) % WrapMod

\* one millisecond passes
PublishTick ==
    /\ publisher' = [publisher EXCEPT
            !.millis = (publisher.millis + 1) % WrapMod,
            !.since = [d \in Mon |->
                         IF publisher.since[d] = Never
                            \/ publisher.since[d] = MQTT_UPDATE_INTERVAL
                         THEN publisher.since[d] ELSE publisher.since[d] + 1]]
    /\ UNCHANGED <<programVars, display>>

\* the connection to the broker is made or lost: mqttClient.connected() becomes v
BrokerLink(v) ==
    /\ publisher.connected # v
    /\ publisher' = [publisher EXCEPT !.connected = v]
    /\ UNCHANGED <<programVars, display>>

\* MQTTClient::publishState() for the Monitor of device index; published: the result
\* of mqttClient.publish()
PublishState(index, published) ==
    LET t == publisher.millis
        last == publisher.lastPublishTime[index]
    IN  /\ IF ~publisher.connected
           THEN UNCHANGED publisher
           ELSE IF last # 0 /\ PublishElapsed(t, last) < MQTT_UPDATE_INTERVAL
           THEN UNCHANGED publisher
           ELSE publisher' = [publisher EXCEPT
                    !.lastPublishTime[index] = t,
                    !.published[index] = published,
                    !.since[index] = 0,
                    !.early[index] = publisher.since[index] # Never
                                     /\ publisher.since[index] < MQTT_UPDATE_INTERVAL]
        /\ UNCHANGED <<programVars, display>>

PublishNext ==
    \/ PublishTick
    \/ \E v \in BOOLEAN : BrokerLink(v)
    \/ \E index \in Mon, published \in BOOLEAN : PublishState(index, published)

PublishSpec == Init /\ [][PublishNext]_vars

\* C32: for each device, a state publish never comes less than MQTT_UPDATE_INTERVAL
\* after the state publish before it, whether that one succeeded or failed; the first
\* publish of a device has none before it
C32_PublishSpacing ==
    \A d \in Mon : ~publisher.early[d]

=============================================================================
